---------------------------- MODULE Spec2Model ----------------------------
(***************************************************************************)
(* A model of script.js, the GPS-based step counter.                       *)
(*                                                                         *)
(* Numbers.  A JavaScript number is a record [k, v].  k = "num" is a       *)
(* finite number whose value is v hundredths (0.78 is v = 78, the goal     *)
(* 10000 is v = 1000000); k = "e21" is the number 10^21, the smallest      *)
(* integer that String() prints in exponent form; k = "nan", "inf" and     *)
(* "ninf" are NaN, Infinity and -Infinity; k = "huge" is 10^308, a finite  *)
(* number so near Number.MAX_VALUE that dividing it by less than 0.5563    *)
(* overflows to Infinity (a quotient that stays finite is "huge" as well). *)
(*                                                                         *)
(* Strings.  A string that the program parses is a sequence of one         *)
(* character strings, <<"0", ".", "7", "8">>.  Dates are never parsed by   *)
(* the program, only compared, and are plain strings.                      *)
(*                                                                         *)
(* Positions.  Every sample lies on the meridian lon = 0 and lat is the    *)
(* arc from the equator in centimetres, so that the haversine distance of  *)
(* two samples is |lat1 - lat2| hundredths of a metre.                     *)
(***************************************************************************)
EXTENDS Integers, Sequences, FiniteSets, TLC

VARIABLES
    storage,    \* localStorage: the four keys of STORAGE_KEYS
    watchId,    \* runtime var watchId: 0 is null
    lastPos,    \* runtime var lastPos: NoPos is null
    booted,     \* DOMContentLoaded has fired and init() has run
    watches,    \* the platform's live position watches (ids)
    nextWatch,  \* the id the platform hands out next
    today,      \* the current calendar day, an index into DayNames
    ui,         \* what updateUI rendered last: steps, goal, remaining, percent, flag
    ev,         \* history: the operation that ran last, with what it saw
    prev,       \* history: the tag of the operation before it
    sess        \* history: where the tracking session stands (see SessAfter)

vars == <<storage, watchId, lastPos, booted, watches, nextWatch, today, ui, ev, prev, sess>>

----------------------------------------------------------------------------
(* Bounds of the model *)

MaxWatches == 2         \* number of watchPosition calls in one run

----------------------------------------------------------------------------
(* Program constants *)

DEFAULT_GOAL == 10000
DEFAULT_STRIDE == 78            \* 0.78 m, in hundredths
MAX_ACCEPTABLE_ACCURACY == 25   \* metres
MAX_SPEED_MPS == 8
NOISE_CM == 50                  \* the literal 0.5 of "d >= 0.5", in hundredths

----------------------------------------------------------------------------
(* JavaScript numbers *)

Num(v) == [k |-> "num", v |-> v]
NaN == [k |-> "nan", v |-> 0]
PosInf == [k |-> "inf", v |-> 0]
NegInf == [k |-> "ninf", v |-> 0]
E21 == [k |-> "e21", v |-> 0]
Huge == [k |-> "huge", v |-> 0]

\* Number.isFinite
IsFinite(x) == x.k \in {"num", "e21", "huge"}

\* x >= c for a number x and a finite bound of c hundredths (NaN compares false)
GeqCenti(x, c) ==
    CASE x.k = "num" -> x.v >= c
      [] x.k \in {"e21", "huge", "inf"} -> TRUE
      [] OTHER -> FALSE

\* x > c
GtCenti(x, c) ==
    CASE x.k = "num" -> x.v > c
      [] x.k \in {"e21", "huge", "inf"} -> TRUE
      [] OTHER -> FALSE

\* x <= c
LeqCenti(x, c) ==
    CASE x.k = "num" -> x.v <= c
      [] x.k = "ninf" -> TRUE
      [] OTHER -> FALSE

----------------------------------------------------------------------------
(* Strings *)

DigitChars == <<"0", "1", "2", "3", "4", "5", "6", "7", "8", "9">>
DigitOf == [c \in {DigitChars[i] : i \in 1..10} |-> (CHOOSE i \in 1..10 : DigitChars[i] = c) - 1]
IsDigit(c) == c \in DOMAIN DigitOf
DigitVal(c) == DigitOf[c]
IsSpace(c) == c \in {" ", "\t", "\n"}

InfinityStr == <<"I", "n", "f", "i", "n", "i", "t", "y">>
NaNStr == <<"N", "a", "N">>
E21Str == <<"1", "e", "+", "2", "1">>
HugeStr == <<"1", "e", "+", "3", "0", "8">>
\* the decimal digits of 10^21
E21Digits == <<"1">> \o [i \in 1..21 |-> "0"]

Drop(s, n) == SubSeq(s, n + 1, Len(s))
HasPrefix(s, p) == Len(s) >= Len(p) /\ SubSeq(s, 1, Len(p)) = p

RECURSIVE SkipSpace(_)
\* s without its leading white space
SkipSpace(s) == IF s # <<>> /\ IsSpace(Head(s)) THEN SkipSpace(Tail(s)) ELSE s

RECURSIVE DigitRun(_)
\* length of the longest prefix of s made of decimal digits
DigitRun(s) == IF s # <<>> /\ IsDigit(Head(s)) THEN 1 + DigitRun(Tail(s)) ELSE 0

RECURSIVE DigitsValue(_)
\* the integer written by a sequence of digits (0 for the empty one)
DigitsValue(ds) ==
    IF ds = <<>> THEN 0
    ELSE 10 * DigitsValue(SubSeq(ds, 1, Len(ds) - 1)) + DigitVal(ds[Len(ds)])

RECURSIVE StripZeros(_)
\* a digit sequence without its leading zeros
StripZeros(ds) == IF ds # <<>> /\ Head(ds) = "0" THEN StripZeros(Tail(ds)) ELSE ds

RECURSIVE IntToStr(_)
\* the decimal digits of a natural number
IntToStr(n) ==
    IF n < 10 THEN <<DigitChars[n + 1]>>
    ELSE Append(IntToStr(n \div 10), DigitChars[(n % 10) + 1])

Negate(x) ==
    CASE x.k = "num" -> Num(0 - x.v)
      [] x.k = "inf" -> NegInf
      [] x.k = "ninf" -> PosInf
      [] OTHER -> x

\* the sign prefix of a numeric string: <<sign, rest>>
SignOf(s) ==
    IF s # <<>> /\ Head(s) = "-" THEN <<-1, Tail(s)>>
    ELSE IF s # <<>> /\ Head(s) = "+" THEN <<1, Tail(s)>>
    ELSE <<1, s>>

----------------------------------------------------------------------------
(* parseFloat, parseInt and String, on the strings localStorage holds.     *)
(* An item is what getItem returns: [has |-> FALSE] is null.               *)

Item(s) == [has |-> TRUE, s |-> s]
Missing == [has |-> FALSE, s |-> <<>>]
MissingDate == [has |-> FALSE, s |-> ""]

\* the value, in hundredths, of the digits after the decimal point; the
\* number grid of the model ends at the second of them
Hundredths(fd) ==
    CASE Len(fd) = 0 -> 0
      [] Len(fd) = 1 -> 10 * DigitVal(fd[1])
      [] OTHER -> 10 * DigitVal(fd[1]) + DigitVal(fd[2])

\* the number a run of integer digits and a run of fraction digits write
DecimalValue(id, fd) ==
    IF StripZeros(id) = E21Digits /\ Hundredths(fd) = 0 THEN E21
    ELSE Num(100 * DigitsValue(StripZeros(id)) + Hundredths(fd))

\* parseFloat(item): null reads as "null"; leading white space is skipped,
\* then the longest prefix that is a decimal literal is read.  The
\* exponent literals read are "1e+21" and "1e+308", the ones String()
\* writes here.
ParseFloat(item) ==
    IF ~item.has THEN NaN
    ELSE LET sg == SignOf(SkipSpace(item.s))
             r == sg[2]
             n == DigitRun(r)
             rest == Drop(r, n)
             dot == rest # <<>> /\ Head(rest) = "."
             m == IF dot THEN DigitRun(Tail(rest)) ELSE 0
             x == IF HasPrefix(r, InfinityStr) THEN PosInf
                  ELSE IF HasPrefix(r, E21Str) THEN E21
                  ELSE IF HasPrefix(r, HugeStr) THEN Huge
                  ELSE IF n = 0 /\ m = 0 THEN NaN
                  ELSE DecimalValue(SubSeq(r, 1, n),
                                    IF dot THEN SubSeq(Tail(rest), 1, m) ELSE <<>>)
         IN IF sg[1] < 0 THEN Negate(x) ELSE x

\* parseInt(item, 10): white space, a sign, then the longest run of digits
ParseInt(item) ==
    IF ~item.has THEN NaN
    ELSE LET sg == SignOf(SkipSpace(item.s))
             r == sg[2]
             n == DigitRun(r)
             x == IF n = 0 THEN NaN ELSE DecimalValue(SubSeq(r, 1, n), <<>>)
         IN IF sg[1] < 0 THEN Negate(x) ELSE x

\* String(x)
NumberToString(x) ==
    CASE x.k = "nan" -> NaNStr
      [] x.k = "inf" -> InfinityStr
      [] x.k = "ninf" -> <<"-">> \o InfinityStr
      [] x.k = "e21" -> E21Str
      [] x.k = "huge" -> HugeStr
      [] x.k = "num" ->
            LET a == IF x.v < 0 THEN 0 - x.v ELSE x.v
                fr == a % 100
                frac == IF fr = 0 THEN <<>>
                        ELSE IF fr % 10 = 0 THEN <<".", DigitChars[(fr \div 10) + 1]>>
                        ELSE <<".", DigitChars[(fr \div 10) + 1], DigitChars[(fr % 10) + 1]>>
            IN (IF x.v < 0 THEN <<"-">> ELSE <<>>) \o IntToStr(a \div 100) \o frac

----------------------------------------------------------------------------
(* The daily state store *)

\* the days the clock runs over, and a day before them
DayNames == <<"2026-11-03", "2026-11-04">>
EarlierDay == "2026-11-02"

\* todayString() on calendar day `day`
todayString(day) == DayNames[day]

\* a variant of FloorDiv that rounds the quotient up
FloorDiv_Ceil(distance, stride) ==
    Num(100 * ((distance.v + stride.v - 1) \div stride.v))

\* Math.floor(distance / stride) for a distance >= 0 and a stride > 0;
\* 10^308 / stride is above Number.MAX_VALUE, and so Infinity, for a stride
\* below 0.5563
FloorDiv(distance, stride) ==
    CASE distance.k = "num" /\ stride.k = "num" -> Num(100 * (distance.v \div stride.v))
      [] distance.k = "num" /\ stride.k \in {"e21", "huge", "inf"} -> Num(0)
      [] distance.k = "huge" /\ stride.k = "num" -> IF stride.v < 56 THEN PosInf ELSE Huge

\* the state object loadState builds from the four keys
Sanitize(st, day) ==
    LET rawDist == ParseFloat(st.distance)
        goal == ParseInt(st.goal)
        stride == ParseFloat(st.stride)
        storedDate == st.date
    IN [distance |-> IF IsFinite(rawDist) /\ GeqCenti(rawDist, 0) THEN rawDist ELSE Num(0),
        goal |-> IF IsFinite(goal) /\ GeqCenti(goal, 100 * 100) THEN goal
                 ELSE Num(100 * DEFAULT_GOAL),
        stride |-> IF IsFinite(stride) /\ GtCenti(stride, 0) THEN stride
                   ELSE Num(DEFAULT_STRIDE),
        date |-> IF storedDate.has /\ storedDate.s # "" THEN storedDate.s
                 ELSE todayString(day)]

WithSteps(state) ==
    [distance |-> state.distance, goal |-> state.goal, stride |-> state.stride,
     date |-> state.date, steps |-> FloorDiv(state.distance, state.stride)]

\* a variant of saveState that writes the distance rounded to whole metres
saveState_Rounded(state, day) ==
    [distance |-> Item(NumberToString(Num(100 * ((state.distance.v + 50) \div 100)))),
     goal |-> Item(NumberToString(state.goal)),
     stride |-> Item(NumberToString(state.stride)),
     date |-> Item(IF state.date # "" THEN state.date ELSE todayString(day))]

\* saveState(state): the storage after it
saveState(state, day) ==
    [distance |-> Item(NumberToString(state.distance)),
     goal |-> Item(NumberToString(state.goal)),
     stride |-> Item(NumberToString(state.stride)),
     date |-> Item(IF state.date # "" THEN state.date ELSE todayString(day))]

\* a variant of loadState that resets the returned state on a day change
\* but does not write it back
loadState_NoPersist(st, day) ==
    LET s0 == Sanitize(st, day)
        s1 == [s0 EXCEPT !.distance = Num(0), !.date = todayString(day)]
    IN IF s0.date # todayString(day)
       THEN [state |-> WithSteps(s1), storage |-> st]
       ELSE [state |-> WithSteps(s0), storage |-> st]

\* a variant of loadState whose daily reset advances the date and keeps
\* the distance
loadState_KeepsDistance(st, day) ==
    LET s0 == Sanitize(st, day)
        s1 == [s0 EXCEPT !.date = todayString(day)]
    IN IF s0.date # todayString(day)
       THEN [state |-> WithSteps(s1), storage |-> saveState(s1, day)]
       ELSE [state |-> WithSteps(s0), storage |-> st]

\* loadState(): the state it returns and the storage it leaves
loadState(st, day) ==
    LET s0 == Sanitize(st, day)
        s1 == [s0 EXCEPT !.distance = Num(0), !.date = todayString(day)]
    IN IF s0.date # todayString(day)
       THEN [state |-> WithSteps(s1), storage |-> saveState(s1, day)]
       ELSE [state |-> WithSteps(s0), storage |-> st]

----------------------------------------------------------------------------
(* The distance accumulator *)

NoPos == [lat |-> -1, lon |-> 0, timestamp |-> -1]

\* haversine distance, in hundredths of a metre, of two points of one
\* meridian: with dLon = 0 the formula is a = sin^2(dLat/2), c = |dLat|,
\* R * c = the arc between the two latitudes
distanceInMeters(lat1, lon1, lat2, lon2) ==
    CASE lon1 = lon2 -> IF lat2 >= lat1 THEN lat2 - lat1 ELSE lat1 - lat2

\* a variant of LowAccuracy with the threshold one metre too high
LowAccuracy_Lenient(acc) == acc > MAX_ACCEPTABLE_ACCURACY + 1

\* acc > MAX_ACCEPTABLE_ACCURACY
LowAccuracy(acc) == acc > MAX_ACCEPTABLE_ACCURACY

\* timestamp - lastPos.timestamp, in milliseconds; dt is a thousandth of it
ElapsedMs(lp, timestamp) == timestamp - lp.timestamp

\* a variant of IsJump that lets every speed pass
IsJump_Never(d, dtMs) == FALSE

\* impliedSpeed > MAX_SPEED_MPS, for d hundredths of a metre in dtMs ms:
\* (d / 100) / (dtMs / 1000) > MAX_SPEED_MPS
IsJump(d, dtMs) == d * 1000 > MAX_SPEED_MPS * 100 * dtMs

\* a variant of Accumulates that counts every movement, however small
Accumulates_AnyMove(d) == d > 0

\* d >= 0.5
Accumulates(d) == d >= NOISE_CM

\* the path one sample takes through the success callback
Branch(lp, lat, lon, acc, timestamp) ==
    IF LowAccuracy(acc) THEN "lowacc"
    ELSE IF lp = NoPos THEN "first"
    ELSE IF ElapsedMs(lp, timestamp) <= 0 THEN "anomaly"
    ELSE IF IsJump(distanceInMeters(lp.lat, lp.lon, lat, lon), ElapsedMs(lp, timestamp))
         THEN "jump"
    ELSE IF Accumulates(distanceInMeters(lp.lat, lp.lon, lat, lon)) THEN "accumulate"
    ELSE "noise"

\* a variant of ReachesAccept in which the dt <= 0 path does not return early
ReachesAccept_AnomalyAdvances(branch) == branch \in {"first", "noise", "accumulate", "anomaly"}

\* a variant of ReachesAccept in which the jump path does not return early
ReachesAccept_JumpAdvances(branch) == branch \in {"first", "noise", "accumulate", "jump"}

\* the paths that do not return early and so reach "lastPos = {lat, lon, timestamp}"
ReachesAccept(branch) == branch \in {"first", "noise", "accumulate"}

\* a variant of AddDistance that subtracts
AddDistance_Negated(state, d) == [state EXCEPT !.distance = Num(state.distance.v - d)]

\* a variant of AddDistance that also puts the default stride back
AddDistance_DefaultStride(state, d) ==
    [state EXCEPT !.distance = Num(state.distance.v + d), !.stride = Num(DEFAULT_STRIDE)]

\* state.distance += d
AddDistance(state, d) == [state EXCEPT !.distance = Num(state.distance.v + d)]

----------------------------------------------------------------------------
(* The display: what updateUI derives from a state and writes to the page *)

\* nothing rendered yet
NoUI == [steps |-> NaN, goal |-> NaN, remaining |-> NaN, percent |-> NaN,
         goalReached |-> FALSE]

\* the order of the magnitudes beyond the grid
Rank(x) == CASE x.k = "num" -> 0 [] x.k = "e21" -> 1 [] x.k = "huge" -> 2 [] x.k = "inf" -> 3

\* x >= y for two numbers that are not NaN and not negative
Geq(x, y) == IF x.k = "num" /\ y.k = "num" THEN x.v >= y.v ELSE Rank(x) >= Rank(y)

\* Math.max(state.goal - steps, 0); 10^21 less a step count of the grid
\* is 10^21 again in double precision
Remaining(goal, steps) ==
    CASE steps.k = "num" /\ goal.k = "num" ->
            IF goal.v >= steps.v THEN Num(goal.v - steps.v) ELSE Num(0)
      [] steps.k = "num" /\ goal.k = "e21" -> E21
      [] steps.k \in {"huge", "inf"} -> Num(0)

\* Math.min(state.goal > 0 ? Math.round((steps / state.goal) * 100) : 0, 100);
\* Math.round rounds a half up
Percent(goal, steps) ==
    CASE goal.k = "num" /\ goal.v <= 0 -> Num(0)
      [] goal.k = "num" /\ goal.v > 0 /\ steps.k = "num" ->
            LET percentRaw == (200 * steps.v + goal.v) \div (2 * goal.v)
            IN Num(100 * (IF percentRaw < 100 THEN percentRaw ELSE 100))
      [] goal.k = "e21" /\ steps.k = "num" -> Num(0)
      [] goal.k \in {"num", "e21"} /\ steps.k \in {"huge", "inf"} -> Num(100 * 100)

\* a variant of GoalReached that wants the goal exceeded
GoalReached_Strict(goal, steps) == Geq(steps, goal) /\ steps # goal

\* steps >= state.goal
GoalReached(goal, steps) == Geq(steps, goal)

\* updateUI(state, extras): the telemetry written to the page
updateUI(state) ==
    LET steps == FloorDiv(state.distance, state.stride)
    IN [steps |-> steps,
        goal |-> state.goal,
        remaining |-> Remaining(state.goal, steps),
        percent |-> Percent(state.goal, steps),
        goalReached |-> GoalReached(state.goal, steps)]

----------------------------------------------------------------------------
(* History records *)

NoState == [distance |-> NaN, goal |-> NaN, stride |-> NaN, date |-> "", steps |-> NaN]

\* the paths that prev remembers
Remembered == {"jump", "rollover", "stored"}

\* ev and prev after an operation: which operation ran and the path it
\* took, for a call of the store the state it returned (ret) or was given
\* (arg), and the path of the operation before it if it is a remembered one
RecordCall(op, branch, ret, arg) ==
    /\ ev' = [op |-> op, branch |-> branch, ret |-> ret, arg |-> arg]
    /\ prev' = IF ev.branch \in Remembered THEN ev.branch ELSE "other"

Record(op, branch) == RecordCall(op, branch, NoState, NoState)

----------------------------------------------------------------------------
(* What the environment supplies *)

\* stored under gps_distance_m / gps_stride_m before the page loads
RawDistances ==
    {Missing, Item(<<"-", "5">>), Item(<<"1", ".", "5">>), Item(InfinityStr)}
RawStrides ==
    {Missing, Item(<<"0">>), Item(<<"0", ".", "1">>), Item(<<"0", ".", "5">>), Item(<<"3">>)}
\* stored under gps_goal
RawGoals ==
    {Missing, Item(<<"5", "0">>), Item(<<" ", "1", "5", "0", ".", "7">>),
     Item(<<"2", "0", "0", "0", "0", "0">>), Item(E21Digits)}
\* stored under gps_date
RawDates == {MissingDate, Item(""), Item(EarlierDay), Item(DayNames[1])}

RawStorages ==
    [distance : RawDistances, goal : RawGoals, stride : RawStrides, date : RawDates]

\* position fixes: four points of the meridian, 0.3 m, 0.5 m, 0.8 m and
\* 1.3 m apart, 100 ms apart in time, so that 0.8 m is covered at exactly
\* MAX_SPEED_MPS; timestamp 0 is an absent timestamp
Lats == {0, 50, 80, 130}
Clock == {1000, 1100}
Samples ==
    [lat : Lats, lon : {0}, acc : {MAX_ACCEPTABLE_ACCURACY}, timestamp : Clock]
    \cup [lat : {0, 130}, lon : {0}, acc : {MAX_ACCEPTABLE_ACCURACY + 1}, timestamp : {1100}]
    \cup [lat : {80}, lon : {0}, acc : {MAX_ACCEPTABLE_ACCURACY}, timestamp : {0}]

ErrorCodes == {"PERMISSION_DENIED", "POSITION_UNAVAILABLE", "TIMEOUT"}

\* what the user has typed into the two settings inputs
GoalInputs == {Item(<<"5", "0">>), Item(<<"5", "0", "0", "0", "0">>)}
StrideInputs == {Item(<<"3">>), Item(<<"0", ".", "5">>)}

----------------------------------------------------------------------------
(* The platform's position watches *)

\* watchPosition: the live watches after the call
WatchesAfterOpen(ws, id) == ws \cup {id}

\* clearWatch(id)
WatchesAfterClear(ws, id) == ws \ {id}

\* the live watches after the platform has called the error callback of
\* watch id: a denied permission ends the watch, a failed or timed out
\* acquisition leaves it running
WatchesAfterError(ws, id, code) ==
    IF code = "PERMISSION_DENIED" THEN ws \ {id} ELSE ws

----------------------------------------------------------------------------
(* Initial state: the script has been evaluated, the document is loading *)

\* what the browser may hold for this origin when the page loads: nothing,
\* the record of an earlier day, a record written today, a damaged record
InitStorages ==
    {[distance |-> Missing, goal |-> Missing, stride |-> Missing, date |-> MissingDate],
     [distance |-> Item(<<"1", ".", "5">>), goal |-> Item(<<"5", "0", "0", "0", "0">>),
      stride |-> Item(<<"0", ".", "5">>), date |-> Item(EarlierDay)],
     [distance |-> Item(<<"0", ".", "5">>), goal |-> Item(<<"1", "5", "0">>),
      stride |-> Item(<<"0", ".", "7", "8">>), date |-> Item(DayNames[1])]}

Runtime0 ==
    /\ watchId = 0
    /\ lastPos = NoPos
    /\ booted = FALSE
    /\ watches = {}
    /\ nextWatch = 1
    /\ today = 1
    /\ ui = NoUI
    /\ ev = [op |-> "none", branch |-> "none", ret |-> NoState, arg |-> NoState]
    /\ prev = "other"
    /\ sess = "idle"

Init == storage \in InitStorages /\ Runtime0

\* the store alone, over every stored content of the bounded sets
StoreInit == storage \in RawStorages /\ Runtime0

----------------------------------------------------------------------------
(* The store on its own: load() and save(state) called by a client *)

StoreDistances == {Num(150), Num(-500)}
StoreGoals == {Num(100 * 50), Num(100 * 100000), Num(100 * 200000)}
StoreStrides == {Num(20), Num(300)}
StoreDates == {"", EarlierDay, DayNames[1]}

StoreLoad ==
    /\ \E loaded \in {loadState(storage, today)} :
            /\ storage' = loaded.storage
            /\ RecordCall("load", IF Sanitize(storage, today).date # todayString(today)
                                  THEN "rollover" ELSE "same",
                          loaded.state, NoState)
    /\ UNCHANGED <<watchId, lastPos, booted, watches, nextWatch, today, ui, sess>>

StoreSave ==
    \E d \in StoreDistances, g \in StoreGoals, s \in StoreStrides, dt \in StoreDates :
        LET state == WithSteps([distance |-> d, goal |-> g, stride |-> s, date |-> dt])
        IN /\ storage' = saveState(state, today)
           /\ RecordCall("save", "stored", NoState, state)
           /\ UNCHANGED <<watchId, lastPos, booted, watches, nextWatch, today, ui, sess>>

\* midnight passes
DayChange ==
    /\ today < Len(DayNames)
    /\ today' = today + 1
    /\ Record("tick", "tick")
    /\ UNCHANGED <<storage, watchId, lastPos, booted, watches, nextWatch, ui, sess>>

StoreNext == StoreLoad \/ StoreSave \/ DayChange

StoreSpec == StoreInit /\ [][StoreNext]_vars

----------------------------------------------------------------------------
(* The application *)

\* the history of the tracking session:
\*   "idle"       no watch has been opened yet
\*   "live"       a watch was opened and nothing has ended the session
\*   "torn"       Pause or a sensor error ended the session
\*   "restarted"  Start ran after that, and no sample with an acceptable
\*                accuracy has been processed since
SessAfterStart(s) == IF s = "torn" THEN "restarted" ELSE IF s = "idle" THEN "live" ELSE s
SessAfterSample(s, acc) == IF s = "restarted" /\ ~LowAccuracy(acc) THEN "live" ELSE s

\* init(): load, persist the defaults, wire the buttons
InitApp ==
    /\ ~booted
    /\ booted' = TRUE
    /\ \E state \in {loadState(storage, today).state} :
            /\ storage' = saveState(state, today)
            /\ ui' = updateUI(state)
    /\ Record("init", "init")
    /\ UNCHANGED <<watchId, lastPos, watches, nextWatch, today, sess>>

\* startTracking() with navigator.geolocation present or not
StartTracking(geolocation) ==
    /\ booted
    /\ IF ~geolocation \/ watchId # 0
       THEN /\ UNCHANGED <<watchId, watches, nextWatch, sess>>
            /\ Record("start", "noop")
       ELSE /\ nextWatch <= MaxWatches
            /\ watchId' = nextWatch
            /\ watches' = WatchesAfterOpen(watches, nextWatch)
            /\ nextWatch' = nextWatch + 1
            /\ sess' = SessAfterStart(sess)
            /\ Record("start", "opened")
    /\ UNCHANGED <<storage, lastPos, booted, today, ui>>

\* the success callback of a live watch, called with one position; `now` is
\* Date.now(), read when the position carries no timestamp
OnPosition(pos, now) ==
    LET timestamp == IF pos.timestamp # 0 THEN pos.timestamp ELSE now
        branch == Branch(lastPos, pos.lat, pos.lon, pos.acc, timestamp)
        d == distanceInMeters(lastPos.lat, lastPos.lon, pos.lat, pos.lon)
    IN /\ watches # {}
       /\ Record("sample", branch)
       /\ lastPos' = IF ReachesAccept(branch)
                     THEN [lat |-> pos.lat, lon |-> pos.lon, timestamp |-> timestamp]
                     ELSE lastPos
       /\ sess' = SessAfterSample(sess, pos.acc)
       /\ \E loaded \in {loadState(storage, today)} :
            IF branch = "accumulate"
            THEN \E state \in {AddDistance(loaded.state, d)} :
                    /\ storage' = saveState(state, today)
                    /\ ui' = updateUI(state)
            ELSE /\ storage' = loaded.storage
                 /\ ui' = updateUI(loaded.state)
       /\ UNCHANGED <<watchId, booted, watches, nextWatch, today>>

\* the error callback of live watch id
OnError(id, code) ==
    /\ id \in watches
    /\ watchId' = 0
    /\ watches' = WatchesAfterError(watches, id, code)
    /\ sess' = "torn"
    /\ Record("error", code)
    /\ UNCHANGED <<storage, lastPos, booted, nextWatch, today, ui>>

\* pauseTracking()
PauseTracking ==
    /\ booted
    /\ IF watchId # 0
       THEN /\ watches' = WatchesAfterClear(watches, watchId)
            /\ watchId' = 0
            /\ sess' = "torn"
            /\ Record("pause", "closed")
       ELSE /\ UNCHANGED <<watches, watchId, sess>>
            /\ Record("pause", "noop")
    /\ UNCHANGED <<storage, lastPos, booted, nextWatch, today, ui>>

\* a variant of resetData that keeps lastPos
ResetData_KeepsBaseline(confirmed) ==
    /\ booted
    /\ IF confirmed
       THEN \E state \in {loadState(storage, today).state} :
               /\ Record("reset", "confirmed")
               /\ UNCHANGED lastPos
               /\ storage' = saveState([state EXCEPT !.distance = Num(0),
                                                     !.date = todayString(today)], today)
               /\ ui' = updateUI([state EXCEPT !.distance = Num(0)])
       ELSE /\ Record("reset", "declined")
            /\ UNCHANGED <<storage, lastPos, ui>>
    /\ UNCHANGED <<watchId, booted, watches, nextWatch, today, sess>>

\* resetData(), the user answering the confirm() dialog
ResetData(confirmed) ==
    /\ booted
    /\ IF confirmed
       THEN \E state \in {loadState(storage, today).state} :
               /\ Record("reset", "confirmed")
               /\ lastPos' = NoPos
               /\ storage' = saveState([state EXCEPT !.distance = Num(0),
                                                     !.date = todayString(today)], today)
               /\ ui' = updateUI([state EXCEPT !.distance = Num(0)])
       ELSE /\ Record("reset", "declined")
            /\ UNCHANGED <<storage, lastPos, ui>>
    /\ UNCHANGED <<watchId, booted, watches, nextWatch, today, sess>>

\* a variant of GoalAccepted without the upper end of the range
GoalAccepted_NoUpper(rawGoal) == IsFinite(rawGoal) /\ GeqCenti(rawGoal, 100 * 100)

\* rawGoal and rawStride pass the two range checks of saveSettings
GoalAccepted(rawGoal) ==
    IsFinite(rawGoal) /\ GeqCenti(rawGoal, 100 * 100) /\ LeqCenti(rawGoal, 100 * 100000)
StrideAccepted(rawStride) ==
    IsFinite(rawStride) /\ GeqCenti(rawStride, 20) /\ LeqCenti(rawStride, 200)

\* saveSettings() with the two inputs holding goalInput and strideInput
SaveSettings(goalInput, strideInput) ==
    LET rawGoal == ParseInt(goalInput)
        rawStride == ParseFloat(strideInput)
    IN /\ booted
       /\ IF ~GoalAccepted(rawGoal)
          THEN /\ Record("settings", "badgoal")
               /\ UNCHANGED ui
               /\ storage' = loadState(storage, today).storage
          ELSE IF ~StrideAccepted(rawStride)
          THEN /\ Record("settings", "badstride")
               /\ UNCHANGED ui
               /\ storage' = loadState(storage, today).storage
          ELSE /\ Record("settings", "saved")
               /\ \E state \in {[loadState(storage, today).state
                                    EXCEPT !.goal = rawGoal, !.stride = rawStride]} :
                    /\ storage' = saveState(state, today)
                    /\ ui' = updateUI(state)
       /\ UNCHANGED <<watchId, lastPos, booted, watches, nextWatch, today, sess>>

Next ==
    \/ InitApp
    \/ \E geolocation \in BOOLEAN : StartTracking(geolocation)
    \/ \E pos \in Samples :
            \E now \in IF pos.timestamp # 0 THEN {pos.timestamp} ELSE Clock :
                OnPosition(pos, now)
    \/ \E id \in watches, code \in ErrorCodes : OnError(id, code)
    \/ PauseTracking
    \/ \E confirmed \in BOOLEAN : ResetData(confirmed)
    \/ \E goalInput \in GoalInputs, strideInput \in StrideInputs :
            SaveSettings(goalInput, strideInput)
    \/ DayChange

Spec == Init /\ [][Next]_vars

----------------------------------------------------------------------------
(* Vocabulary of the properties, in the units of the specification's text  *)
(* and independent of the operators that model the callback                *)

\* the persisted distanceMeters, in hundredths of a metre
StoredDistance(st) == ParseFloat(st.distance)

\* the stored date is the current date
StoredToday == storage.date.has /\ storage.date.s = todayString(today)

\* the timestamp a sample is processed with
StampOf(pos, now) == IF pos.timestamp # 0 THEN pos.timestamp ELSE now
NowsOf(pos) == IF pos.timestamp # 0 THEN {pos.timestamp} ELSE Clock

\* the sample as a baseline
AsLastPos(pos, now) == [lat |-> pos.lat, lon |-> pos.lon, timestamp |-> StampOf(pos, now)]

\* metres (in hundredths) between the baseline and the sample
Metres(lp, pos) == IF pos.lat >= lp.lat THEN pos.lat - lp.lat ELSE lp.lat - pos.lat

\* dt > 0 and the implied speed d / dt: over 8 m/s, or at most 8 m/s
DtPositive(lp, pos, now) == StampOf(pos, now) > lp.timestamp
SpeedOver8(lp, pos, now) == 10 * Metres(lp, pos) > 8 * (StampOf(pos, now) - lp.timestamp)

\* B: accuracy <= 25, implied speed from the baseline > 8 m/s
IsJumpSample(lp, pos, now) ==
    /\ pos.acc <= 25 /\ lp # NoPos
    /\ DtPositive(lp, pos, now) /\ SpeedOver8(lp, pos, now)

\* C: accuracy <= 25, dt > 0, implied speed <= 8 m/s, distance >= 0.5 m
IsGoodSample(lp, pos, now) ==
    /\ pos.acc <= 25 /\ lp # NoPos
    /\ DtPositive(lp, pos, now) /\ ~SpeedOver8(lp, pos, now)
    /\ Metres(lp, pos) >= 50

\* accuracy <= 25, dt > 0, implied speed <= 8 m/s, distance < 0.5 m
IsNoiseSample(lp, pos, now) ==
    /\ pos.acc <= 25 /\ lp # NoPos
    /\ DtPositive(lp, pos, now) /\ ~SpeedOver8(lp, pos, now)
    /\ Metres(lp, pos) < 50

\* the step is the processing of sample pos
Processes(pos, now) == ev'.op = "sample" /\ OnPosition(pos, now)

----------------------------------------------------------------------------
(* C1, as stated: after an accepted point A, a sample B with accuracy <= 25 *)
(* and implied speed > 8 m/s from A leaves lastAccepted = A and the         *)
(* persisted distance unchanged, and a following sample C with accuracy     *)
(* <= 25, dt > 0, speed <= 8 m/s and distance >= 0.5 m from A adds exactly  *)
(* the distance A->C and becomes lastAccepted.                              *)
C1_JumpFreezesBaseline_AsStated ==
    [][ev'.op = "sample" =>
        \A pos \in Samples : \A now \in NowsOf(pos) :
             /\ (IsJumpSample(lastPos, pos, now) /\ Processes(pos, now))
                    => /\ lastPos' = lastPos
                       /\ storage'.distance = storage.distance
             /\ (ev.branch = "jump" /\ IsGoodSample(lastPos, pos, now) /\ Processes(pos, now))
                    => /\ lastPos' = AsLastPos(pos, now)
                       /\ StoredDistance(storage').v
                            = StoredDistance(storage).v + Metres(lastPos, pos)]_vars

(* C1, amended: the same, for samples processed while the stored date is   *)
(* the current date (a sample processed after a day change first resets    *)
(* the distance to 0).  B leaves lastAccepted = A whatever the date.       *)
C1_JumpFreezesBaseline ==
    [][ev'.op = "sample" =>
        \A pos \in Samples : \A now \in NowsOf(pos) :
             /\ (IsJumpSample(lastPos, pos, now) /\ Processes(pos, now))
                    => /\ lastPos' = lastPos
                       /\ StoredToday => storage'.distance = storage.distance
             /\ (ev.branch = "jump" /\ StoredToday
                   /\ IsGoodSample(lastPos, pos, now) /\ Processes(pos, now))
                    => /\ lastPos' = AsLastPos(pos, now)
                       /\ StoredDistance(storage').v
                            = StoredDistance(storage).v + Metres(lastPos, pos)]_vars

\* C followed the rejected B and was measured from A, on top of a distance
\* walked before
C1_Witness ==
    /\ ev.op = "sample" /\ ev.branch = "accumulate" /\ prev = "jump"
    /\ StoredDistance(storage).v > 80

----------------------------------------------------------------------------
(* C2, as stated: in every reachable state, whatever the stored date,      *)
(* processing a sample with accuracy > 25 changes neither lastAccepted nor *)
(* the persisted distance.                                                 *)
C2_AccuracyGuardrail_AsStated ==
    [][ev'.op = "sample" =>
        \A pos \in Samples : \A now \in NowsOf(pos) :
             (pos.acc > 25 /\ Processes(pos, now))
                => /\ lastPos' = lastPos
                   /\ storage'.distance = storage.distance]_vars

(* C2, amended: processing a sample with accuracy > 25 never changes       *)
(* lastAccepted; it leaves the persisted distance unchanged when the       *)
(* stored date is the current date, and resets it to 0 otherwise.          *)
C2_AccuracyGuardrail ==
    [][ev'.op = "sample" =>
        \A pos \in Samples : \A now \in NowsOf(pos) :
             (pos.acc > 25 /\ Processes(pos, now))
                => /\ lastPos' = lastPos
                   /\ StoredToday => storage'.distance = storage.distance
                   /\ ~StoredToday => StoredDistance(storage') = Num(0)]_vars

\* a sample of accuracy 26 was dropped with a baseline and a distance in place
C2_Witness ==
    /\ ev.op = "sample" /\ ev.branch = "lowacc"
    /\ lastPos # NoPos
    /\ StoredDistance(storage).v > 0

----------------------------------------------------------------------------
(* C3, as stated: with a lastAccepted, a sample with accuracy <= 25,       *)
(* dt > 0, implied speed <= 8 m/s and distance < 0.5 m leaves the          *)
(* persisted distance unchanged and becomes lastAccepted.                  *)
C3_NoiseSuppression_AsStated ==
    [][ev'.op = "sample" =>
        \A pos \in Samples : \A now \in NowsOf(pos) :
             (IsNoiseSample(lastPos, pos, now) /\ Processes(pos, now))
                => /\ storage'.distance = storage.distance
                   /\ lastPos' = AsLastPos(pos, now)]_vars

(* C3, amended: such a sample becomes lastAccepted, and leaves the         *)
(* persisted distance unchanged when the stored date is the current date   *)
(* (after a day change the reload resets it to 0).                         *)
C3_NoiseSuppression ==
    [][ev'.op = "sample" =>
        \A pos \in Samples : \A now \in NowsOf(pos) :
             (IsNoiseSample(lastPos, pos, now) /\ Processes(pos, now))
                => /\ lastPos' = AsLastPos(pos, now)
                   /\ StoredToday => storage'.distance = storage.distance
                   /\ ~StoredToday => StoredDistance(storage') = Num(0)]_vars

\* a sample 0.3 m from the baseline replaced it and added nothing to the distance
C3_Witness ==
    /\ ev.op = "sample" /\ ev.branch = "noise"
    /\ lastPos.timestamp = 1100
    /\ StoredDistance(storage).v > 0

----------------------------------------------------------------------------
(* C4: whenever a date is stored and differs from the current date, load() *)
(* returns distance 0 and the current date whatever the stored distance,   *)
(* returns goal and stride as sanitized, and persists the reset (the       *)
(* stored date becomes the current date, the stored distance 0 and the     *)
(* stored goal and stride the returned ones), so that the load() that      *)
(* follows it also returns distance 0 and the current date.  An absent or  *)
(* empty date is no stored date: load() reads it as the current date.      *)
C4_DayRollover ==
    [][/\ (ev'.op = "load" /\ storage.date.has
             /\ storage.date.s \notin {"", todayString(today)})
            => /\ ev'.ret.distance = Num(0)
               /\ ev'.ret.date = todayString(today)
               /\ ev'.ret.goal = Sanitize(storage, today).goal
               /\ ev'.ret.stride = Sanitize(storage, today).stride
               /\ storage'.date = Item(todayString(today))
               /\ StoredDistance(storage') = Num(0)
               /\ storage'.goal = Item(NumberToString(ev'.ret.goal))
               /\ storage'.stride = Item(NumberToString(ev'.ret.stride))
       /\ (ev.op = "load" /\ ev.branch = "rollover" /\ ev'.op = "load")
            => /\ ev'.ret.distance = Num(0)
               /\ ev'.ret.date = todayString(today)
               /\ StoredDistance(storage') = Num(0)]_vars

\* a load() has followed the load() that rolled the day over
C4_Witness ==
    /\ ev.op = "load" /\ ev.branch = "same" /\ prev = "rollover"
    /\ ev.ret.distance = Num(0) /\ ev.ret.date = todayString(today)
    /\ storage.date = Item(todayString(today))

----------------------------------------------------------------------------
(* C5: after a Pause or a sensor error, the first sample with accuracy     *)
(* <= 25 delivered after the next Start takes the first-sample path: it    *)
(* is not compared with the lastAccepted of the session before, and adds   *)
(* no distance.                                                            *)
C5_StartBeginsEmptyBaseline ==
    [][\A pos \in Samples : \A now \in NowsOf(pos) :
         (sess = "restarted" /\ pos.acc <= 25 /\ Processes(pos, now))
            => /\ ev'.branch = "first"
               /\ lastPos' = AsLastPos(pos, now)
               /\ StoredToday => storage'.distance = storage.distance]_vars

----------------------------------------------------------------------------
(* C6: over any sequence of Start, Pause and sensor errors, at most one    *)
(* position watch is opened and not yet closed, and Start while a session  *)
(* is active opens none.                                                   *)
C6_SingleActiveSubscription ==
    [][/\ Cardinality(watches') <= 1
       /\ (ev'.op = "start" /\ watchId # 0) => watches' = watches]_vars

----------------------------------------------------------------------------
(* C7: once Pause has run on an active session or a sensor error has ended *)
(* it, no sample changes lastAccepted or (the stored date being the        *)
(* current date) the persisted distance until Start is invoked again; and  *)
(* Pause leaves the persisted distance unchanged.                          *)
C7_TeardownStopsSamples ==
    [][/\ (sess = "torn" /\ ev'.op = "sample")
            => /\ lastPos' = lastPos
               /\ StoredToday => storage'.distance = storage.distance
       /\ ev'.op = "pause" => storage'.distance = storage.distance]_vars

----------------------------------------------------------------------------
(* C8: after load(), distanceMeters >= 0, 100 <= goalSteps <= 100000 and   *)
(* 0.2 <= strideMeters <= 2, whatever is stored; a stored value that is    *)
(* missing, non-finite or out of its range is replaced by its default      *)
(* (0, 10000, 0.78, today).                                                *)
DistanceInRange(x) == x.k = "num" /\ x.v >= 0
GoalInRange(x) == x.k = "num" /\ x.v >= 100 * 100 /\ x.v <= 100 * 100000
StrideInRange(x) == x.k = "num" /\ x.v >= 20 /\ x.v <= 200

C8_LoadSanitizesToRanges ==
    [][ev'.op = "load"
         => /\ DistanceInRange(ev'.ret.distance)
            /\ GoalInRange(ev'.ret.goal)
            /\ StrideInRange(ev'.ret.stride)
            /\ ~DistanceInRange(ParseFloat(storage.distance)) => ev'.ret.distance = Num(0)
            /\ ~GoalInRange(ParseInt(storage.goal)) => ev'.ret.goal = Num(100 * 10000)
            /\ ~StrideInRange(ParseFloat(storage.stride)) => ev'.ret.stride = Num(78)
            /\ ~storage.date.has => ev'.ret.date = todayString(today)]_vars

----------------------------------------------------------------------------
(* C9, as stated: for every state whose fields are valid, save(state)      *)
(* followed by load() returns the saved distance, goal, stride and date,   *)
(* with steps recomputed.                                                  *)
CalendarDays == {EarlierDay} \cup {DayNames[i] : i \in 1..Len(DayNames)}

ValidState(s) ==
    /\ DistanceInRange(s.distance)
    /\ GoalInRange(s.goal) /\ s.goal.v % 100 = 0
    /\ StrideInRange(s.stride)
    /\ s.date \in CalendarDays

ReturnsSaved(ret, arg) ==
    /\ ret.distance = arg.distance
    /\ ret.goal = arg.goal
    /\ ret.stride = arg.stride
    /\ ret.date = arg.date
    /\ ret.steps = Num(100 * (arg.distance.v \div arg.stride.v))

C9_RoundTrip_AsStated ==
    [][(ev.op = "save" /\ ValidState(ev.arg) /\ ev'.op = "load")
         => ReturnsSaved(ev'.ret, ev.arg)]_vars

(* C9, amended: for every state whose fields are valid and whose date is   *)
(* the current date, save(state) followed by load() returns the saved      *)
(* distance, goal, stride and date, with steps recomputed.                 *)
C9_RoundTrip ==
    [][(ev.op = "save" /\ ValidState(ev.arg) /\ ev.arg.date = todayString(today)
          /\ ev'.op = "load")
         => ReturnsSaved(ev'.ret, ev.arg)]_vars

\* load() has returned a valid state, with a fractional distance, that was
\* saved just before
C9_Witness ==
    /\ ev.op = "load" /\ prev = "stored"
    /\ ev.ret.distance = Num(150) /\ ev.ret.stride = Num(20)
    /\ ev.ret.goal = Num(100 * 100000) /\ ev.ret.date = todayString(today)
    /\ ev.ret.steps = Num(100 * 7)

----------------------------------------------------------------------------
(* C10: two consecutive load() calls, with no save() and no date change    *)
(* between them, return identical states, and the second leaves the store  *)
(* as the first left it.                                                   *)
C10_LoadIdempotent ==
    [][(ev.op = "load" /\ ev'.op = "load")
         => /\ ev'.ret = ev.ret
            /\ storage' = storage]_vars

----------------------------------------------------------------------------
(* The page with no position watch: init, the settings form, Reset and     *)
(* midnight, over stored records that put the step count below, at and     *)
(* above the goal                                                          *)

PageDistances ==
    {Item(<<"0">>), Item(<<"9", "9">>), Item(<<"9", "9", ".", "5">>), Item(<<"1", "0", "0">>),
     Item(<<"9", "9", "7">>), Item(<<"1", "0", "0", "0">>), Item(HugeStr)}
PageGoals ==
    {Item(<<"1", "0", "0">>), Item(<<"1", "0", "0", "0">>), Item(<<"2", "0", "0", "0", "0", "0">>)}
PageStrides == {Item(<<"0", ".", "2">>), Item(<<"0", ".", "7", "8">>), Item(<<"1">>)}

PageStorages ==
    [distance : PageDistances, goal : PageGoals, stride : PageStrides,
     date : {Item(DayNames[1])}]

PageInit == storage \in PageStorages /\ Runtime0

PageNext ==
    \/ InitApp
    \/ \E goalInput \in GoalInputs, strideInput \in StrideInputs :
            SaveSettings(goalInput, strideInput)
    \/ \E confirmed \in BOOLEAN : ResetData(confirmed)
    \/ DayChange

PageSpec == PageInit /\ [][PageNext]_vars

----------------------------------------------------------------------------
(* The settings form on its own, over inputs below, at and above both ends *)
(* of each range                                                           *)

FormGoalInputs ==
    {Item(<<"5", "0">>), Item(<<"9", "9">>), Item(<<"1", "0", "0">>),
     Item(<<"5", "0", "0", "0", "0">>), Item(<<"1", "0", "0", "0", "0", "0">>),
     Item(<<"1", "0", "0", "0", "0", "1">>)}
FormStrideInputs ==
    {Item(<<"3">>), Item(<<"0", ".", "1", "9">>), Item(<<"0", ".", "2">>),
     Item(<<"0", ".", "7", "8">>), Item(<<"2">>), Item(<<"2", ".", "0", "1">>)}

FormNext ==
    \/ InitApp
    \/ \E goalInput \in FormGoalInputs, strideInput \in FormStrideInputs :
            SaveSettings(goalInput, strideInput)
    \/ DayChange

FormSpec == Init /\ [][FormNext]_vars

----------------------------------------------------------------------------
(* C11, as stated: Save Settings persists the new goal and stride if and   *)
(* only if the goal is an integer in 100..100000 and the stride is in      *)
(* 0.2..2; if either is invalid nothing is saved and the persisted goal,   *)
(* stride and distance are unchanged.                                      *)
GoalValid(goalInput) == GoalInRange(ParseInt(goalInput))
StrideValid(strideInput) == StrideInRange(ParseFloat(strideInput))

\* the step is Save Settings with the two inputs holding these strings
Submits(goalInput, strideInput) ==
    ev'.op = "settings" /\ SaveSettings(goalInput, strideInput)

PersistsSettings(goalInput, strideInput) ==
    /\ storage'.goal = Item(NumberToString(ParseInt(goalInput)))
    /\ storage'.stride = Item(NumberToString(ParseFloat(strideInput)))

C11_SettingsValidation_AsStated ==
    [][\A goalInput \in FormGoalInputs, strideInput \in FormStrideInputs :
         Submits(goalInput, strideInput)
            => IF GoalValid(goalInput) /\ StrideValid(strideInput)
               THEN PersistsSettings(goalInput, strideInput)
               ELSE /\ storage'.goal = storage.goal
                    /\ storage'.stride = storage.stride
                    /\ storage'.distance = storage.distance]_vars

(* C11, amended: the same, except that a rejected Save Settings leaves the *)
(* persisted distance unchanged only when the stored date is the current   *)
(* date: the reload it does to revert the input applies the day rollover,  *)
(* which resets the distance to 0 and advances the stored date.            *)
C11_SettingsValidation ==
    [][\A goalInput \in FormGoalInputs, strideInput \in FormStrideInputs :
         Submits(goalInput, strideInput)
            => IF GoalValid(goalInput) /\ StrideValid(strideInput)
               THEN PersistsSettings(goalInput, strideInput)
               ELSE /\ storage'.goal = storage.goal
                    /\ storage'.stride = storage.stride
                    /\ StoredToday => storage'.distance = storage.distance
                    /\ ~StoredToday => StoredDistance(storage') = Num(0)]_vars

\* goal 50000 and stride 0.78 were accepted and are the persisted settings,
\* next to a distance that was there before
C11_Witness ==
    /\ ev.op = "settings" /\ ev.branch = "saved"
    /\ storage.goal = Item(<<"5", "0", "0", "0", "0">>)
    /\ storage.stride = Item(<<"0", ".", "7", "8">>)
    /\ storage.distance = Item(<<"0", ".", "5">>)

----------------------------------------------------------------------------
(* C12: a confirmed Reset, whether a session is active or not, sets the    *)
(* persisted distance to 0 and the stored date to today, clears            *)
(* lastAccepted, and leaves goal, stride and the session (watchId, the     *)
(* open watches) as they were; lastAccepted then stays empty until a       *)
(* sample with accuracy <= 25 is processed, and that sample adds no        *)
(* distance.  A Reset that is not confirmed changes nothing.               *)
C12_Reset ==
    [][/\ ev'.op = "reset" =>
            \A confirmed \in BOOLEAN :
               ResetData(confirmed)
               => IF confirmed
                  THEN /\ StoredDistance(storage') = Num(0)
                       /\ storage'.date = Item(todayString(today))
                       /\ lastPos' = NoPos
                       /\ storage'.goal = storage.goal
                       /\ storage'.stride = storage.stride
                       /\ watchId' = watchId /\ watches' = watches
                  ELSE UNCHANGED <<storage, lastPos, watchId, watches, ui>>
       /\ (lastPos = NoPos /\ ev'.op # "sample") => lastPos' = NoPos
       /\ (lastPos = NoPos /\ ev'.op = "sample") =>
            \A pos \in Samples : \A now \in NowsOf(pos) :
                (pos.acc <= 25 /\ Processes(pos, now))
                   => /\ lastPos' = AsLastPos(pos, now)
                      /\ StoredToday => storage'.distance = storage.distance
                      /\ ~StoredToday => StoredDistance(storage') = Num(0)]_vars

\* Reset was confirmed during an active session, after the settings had
\* been changed
C12_Witness ==
    /\ ev.op = "reset" /\ ev.branch = "confirmed"
    /\ watchId # 0 /\ watchId \in watches
    /\ lastPos = NoPos
    /\ storage.distance = Item(<<"0">>)
    /\ storage.goal = Item(<<"5", "0", "0", "0", "0">>)

----------------------------------------------------------------------------
(* A walk: the page with a watch that reports fixes 100 m and 1 km apart,  *)
(* 100 s apart in time                                                     *)

WalkLats == {0, 100 * 100, 100 * 1000}
WalkClock == {1000, 1000 + 1000 * 100}
WalkSamples ==
    [lat : WalkLats, lon : {0}, acc : {MAX_ACCEPTABLE_ACCURACY}, timestamp : WalkClock]
    \cup [lat : {0}, lon : {0}, acc : {MAX_ACCEPTABLE_ACCURACY + 1}, timestamp : WalkClock]

WalkNext ==
    \/ InitApp
    \/ StartTracking(TRUE)
    \/ \E pos \in WalkSamples : OnPosition(pos, pos.timestamp)
    \/ PauseTracking

WalkSpec == Init /\ [][WalkNext]_vars

----------------------------------------------------------------------------
(* C13: starting from distance 0 and no lastAccepted, two samples with     *)
(* accuracy <= 25 that are d metres apart with dt > 0, d >= 0.5 and        *)
(* d / dt <= 8 leave the persisted distance = d, the second sample as      *)
(* lastAccepted and the displayed steps = floor(d / stride); for d = 100,  *)
(* dt = 100 s, stride 0.78 and goal 10000 the distance is 100, the steps   *)
(* are 128 and the percent is 1.                                           *)
C13_EndToEnd ==
    [][(ev.op = "sample" /\ ev.branch = "first" /\ storage.distance = Item(<<"0">>)
          /\ ev'.op = "sample") =>
        \A pos \in WalkSamples :
            (IsGoodSample(lastPos, pos, pos.timestamp) /\ Processes(pos, pos.timestamp))
               => /\ StoredDistance(storage') = Num(Metres(lastPos, pos))
                  /\ lastPos' = AsLastPos(pos, pos.timestamp)
                  /\ ui'.steps = Num(100 * (Metres(lastPos, pos)
                                              \div ParseFloat(storage'.stride).v))
                  /\ (/\ Metres(lastPos, pos) = 100 * 100
                      /\ pos.timestamp - lastPos.timestamp = 1000 * 100
                      /\ storage'.stride = Item(<<"0", ".", "7", "8">>)
                      /\ storage'.goal = Item(<<"1", "0", "0", "0", "0">>))
                        => /\ storage'.distance = Item(<<"1", "0", "0">>)
                           /\ ui'.steps = Num(100 * 128)
                           /\ ui'.percent = Num(100 * 1)
                           /\ ui'.remaining = Num(100 * (10000 - 128))]_vars

\* the second of two samples 100 m and 100 s apart was processed with
\* stride 0.78 and goal 10000
C13_Witness ==
    /\ ev.op = "sample" /\ ev.branch = "accumulate"
    /\ lastPos = [lat |-> 100 * 100, lon |-> 0, timestamp |-> 1000 + 1000 * 100]
    /\ storage.distance = Item(<<"1", "0", "0">>)
    /\ storage.stride = Item(<<"0", ".", "7", "8">>)
    /\ storage.goal = Item(<<"1", "0", "0", "0", "0">>)
    /\ ui.steps = Num(100 * 128) /\ ui.percent = Num(100 * 1)

----------------------------------------------------------------------------
(* C14: after every update, the displayed steps are an integer >= 0, the   *)
(* remaining steps are max(goal - steps, 0) and >= 0, the percent is an    *)
(* integer in 0..100, and the goal-reached flag is set exactly when        *)
(* steps >= goal.                                                          *)

\* x is an integer >= 0: a whole number of the grid, or one of the finite
\* magnitudes beyond it (a double that large has no fraction)
IsCount(x) == (x.k = "num" /\ x.v >= 0 /\ x.v % 100 = 0) \/ x.k \in {"e21", "huge"}

\* steps >= goal on what is displayed
StepsReachGoal(u) ==
    IF u.steps.k = "num" /\ u.goal.k = "num" THEN u.steps.v >= u.goal.v
    ELSE u.steps.k \in {"huge", "inf"}

C14_TelemetryInRange ==
    ui # NoUI
       => /\ IsCount(ui.steps)
          /\ IsCount(ui.remaining)
          /\ (ui.steps.k = "num" /\ ui.goal.k = "num")
                => ui.remaining.v = IF ui.goal.v >= ui.steps.v
                                    THEN ui.goal.v - ui.steps.v ELSE 0
          /\ ui.percent.k = "num" /\ ui.percent.v % 100 = 0
          /\ ui.percent.v >= 0 /\ ui.percent.v <= 100 * 100
          /\ ui.goalReached <=> StepsReachGoal(ui)

----------------------------------------------------------------------------
(* C20, as stated: for every displayed state with goal in 100..100000, the *)
(* percent is 100 if and only if the goal-reached flag is set, which holds *)
(* if and only if steps >= goal, which holds if and only if the remaining  *)
(* steps are 0.                                                            *)
C20_ProgressAgreesWithFlag_AsStated ==
    (ui # NoUI /\ GoalInRange(ui.goal))
       => /\ (ui.percent = Num(100 * 100)) <=> ui.goalReached
          /\ ui.goalReached <=> StepsReachGoal(ui)
          /\ StepsReachGoal(ui) <=> (ui.remaining = Num(0))

(* C20, amended: for every displayed state with goal in 100..100000, the   *)
(* goal-reached flag is set if and only if steps >= goal, if and only if   *)
(* the remaining steps are 0; when the flag is set the percent is 100; and *)
(* the percent is 100 only when steps >= 99.5 % of the goal, so it is      *)
(* already 100 for the last half percent before the goal.                  *)
C20_ProgressAgreesWithFlag ==
    (ui # NoUI /\ GoalInRange(ui.goal))
       => /\ ui.goalReached <=> StepsReachGoal(ui)
          /\ StepsReachGoal(ui) <=> (ui.remaining = Num(0))
          /\ ui.goalReached => ui.percent = Num(100 * 100)
          /\ (ui.percent = Num(100 * 100) /\ ui.steps.k = "num")
                => 200 * ui.steps.v >= 199 * ui.goal.v

\* 997 of 1000 steps: the bar shows 100 % with 3 steps remaining and no flag
C20_Witness ==
    /\ ui.goal = Num(100 * 1000) /\ ui.steps = Num(100 * 997)
    /\ ui.percent = Num(100 * 100)
    /\ ui.remaining = Num(100 * 3)
    /\ ~ui.goalReached

----------------------------------------------------------------------------
(* C15, as stated: with a lastAccepted, a sample with accuracy <= 25 and   *)
(* dt <= 0 changes neither lastAccepted nor the persisted distance,        *)
(* whatever its position: a sample step either changes neither, or is not  *)
(* the processing of such a sample.                                        *)
IsAnomalySample(lp, pos, now) ==
    /\ pos.acc <= 25 /\ lp # NoPos
    /\ StampOf(pos, now) <= lp.timestamp

C15_TimestampAnomaly_AsStated ==
    [][ev'.op = "sample" =>
        \/ /\ lastPos' = lastPos
           /\ storage'.distance = storage.distance
        \/ \A pos \in Samples : \A now \in NowsOf(pos) :
              ~(IsAnomalySample(lastPos, pos, now) /\ Processes(pos, now))]_vars

(* C15, amended: such a sample never changes lastAccepted; it leaves the   *)
(* persisted distance unchanged when the stored date is the current date,  *)
(* and after a day change its reload resets the distance to 0.             *)
C15_TimestampAnomaly ==
    [][ev'.op = "sample" =>
        \/ /\ lastPos' = lastPos
           /\ StoredToday => storage'.distance = storage.distance
           /\ ~StoredToday => StoredDistance(storage') = Num(0)
        \/ \A pos \in Samples : \A now \in NowsOf(pos) :
              ~(IsAnomalySample(lastPos, pos, now) /\ Processes(pos, now))]_vars

\* a sample not later than the baseline was dropped, with a distance in place
C15_Witness ==
    /\ ev.op = "sample" /\ ev.branch = "anomaly"
    /\ lastPos.timestamp = 1100
    /\ StoredDistance(storage).v > 0

----------------------------------------------------------------------------
(* C16: in every step of a sample, Start, Pause, a sensor error, Save      *)
(* Settings or a declined Reset that is taken while the stored date is the *)
(* current date (the date has not changed since the distance was last      *)
(* written), the persisted distance does not decrease.                     *)
C16_MonotonicDistance ==
    [][(StoredToday
          /\ \/ ev'.op \in {"sample", "start", "pause", "error", "settings"}
             \/ (ev'.op = "reset" /\ ev'.branch = "declined"))
         => \/ storage'.distance = storage.distance
            \/ StoredDistance(storage').v > StoredDistance(storage).v]_vars

\* settings were saved during a session that had already added distance
C16_Witness ==
    /\ ev.op = "settings" /\ ev.branch = "saved"
    /\ watchId # 0 /\ lastPos.timestamp = 1100
    /\ StoredDistance(storage).v >= 100

----------------------------------------------------------------------------
(* C17: after a sample, a confirmed Reset, Save Settings (accepted or      *)
(* rejected) or init, the stored date is the current date; and when such   *)
(* an operation starts with another stored date, the distance it leaves is *)
(* only what it added itself: the increment of the sample, or 0 (a sample  *)
(* step leaves that distance, or is not the processing of the sample).     *)
C17_DateAttribution ==
    [][/\ (\/ ev'.op \in {"sample", "settings", "init"}
           \/ (ev'.op = "reset" /\ ev'.branch = "confirmed"))
            => storage'.date = Item(todayString(today))
       /\ (~StoredToday
             /\ \/ ev'.op \in {"settings", "init"}
                \/ (ev'.op = "reset" /\ ev'.branch = "confirmed"))
            => StoredDistance(storage') = Num(0)
       /\ (~StoredToday /\ ev'.op = "sample") =>
            \A pos \in Samples : \A now \in NowsOf(pos) :
                \/ StoredDistance(storage')
                      = IF IsGoodSample(lastPos, pos, now)
                        THEN Num(Metres(lastPos, pos)) ELSE Num(0)
                \/ ~Processes(pos, now)]_vars

\* on the second day a sample has added its increment to a distance that
\* restarted from 0
C17_Witness ==
    /\ today = 2
    /\ ev.op = "sample" /\ ev.branch = "accumulate"
    /\ storage.date = Item(DayNames[2])
    /\ StoredDistance(storage).v \in {50, 80}

----------------------------------------------------------------------------
(* C18, as stated: processing a sample never changes the persisted goal or *)
(* stride, and when it changes the distance the steps and goal it displays *)
(* are those of the persisted settings; an accepted Save Settings persists *)
(* its goal and stride and never changes the persisted distance or         *)
(* lastAccepted.                                                           *)
ShowsPersisted ==
    /\ ui'.goal = ParseInt(storage'.goal)
    /\ ui'.steps = Num(100 * (StoredDistance(storage').v \div ParseFloat(storage'.stride).v))

C18_SettingsSurviveSamples_AsStated ==
    [][/\ ev'.op = "sample"
            => /\ storage'.goal = storage.goal
               /\ storage'.stride = storage.stride
               /\ storage'.distance # storage.distance => ShowsPersisted
       /\ ev'.op = "settings" =>
            \A goalInput \in GoalInputs, strideInput \in StrideInputs :
                (GoalValid(goalInput) /\ StrideValid(strideInput)
                   /\ Submits(goalInput, strideInput))
                   => /\ PersistsSettings(goalInput, strideInput)
                      /\ lastPos' = lastPos
                      /\ storage'.distance = storage.distance]_vars

(* C18, amended: the same, except that an accepted Save Settings leaves    *)
(* the persisted distance unchanged only when the stored date is the       *)
(* current date; after a day change its reload resets the distance to 0.   *)
C18_SettingsSurviveSamples ==
    [][/\ ev'.op = "sample"
            => /\ storage'.goal = storage.goal
               /\ storage'.stride = storage.stride
               /\ storage'.distance # storage.distance => ShowsPersisted
       /\ ev'.op = "settings" =>
            \A goalInput \in GoalInputs, strideInput \in StrideInputs :
                (GoalValid(goalInput) /\ StrideValid(strideInput)
                   /\ Submits(goalInput, strideInput))
                   => /\ PersistsSettings(goalInput, strideInput)
                      /\ lastPos' = lastPos
                      /\ StoredToday => storage'.distance = storage.distance
                      /\ ~StoredToday => StoredDistance(storage') = Num(0)]_vars

\* the record of today (0.5 m, goal 150, stride 0.78) after Save Settings
\* (goal 50000, stride 0.5) and a sample that added 0.8 m
C18_Witness ==
    /\ ev.op = "sample" /\ ev.branch = "accumulate"
    /\ storage.distance = Item(<<"1", ".", "3">>)
    /\ storage.goal = Item(<<"5", "0", "0", "0", "0">>)
    /\ storage.stride = Item(<<"0", ".", "5">>)
    /\ ui.steps = Num(100 * 2) /\ ui.goal = Num(100 * 50000)

----------------------------------------------------------------------------
(* C19, as stated: whenever processing a sample increases the persisted    *)
(* distance by d, the sample had accuracy <= 25, a lastAccepted existed,   *)
(* dt was > 0, d is the distance from lastAccepted to the sample and       *)
(* 0.5 <= d <= 8 * dt; no other event increases the persisted distance.    *)
\* the persisted distance in hundredths, an absent item counting as 0
PersistedDistance == IF storage.distance.has THEN StoredDistance(storage).v ELSE 0

C19_GuardedIncrements_AsStated ==
    [][/\ (ev'.op = "sample" /\ storage'.distance # storage.distance
             /\ StoredDistance(storage').v > PersistedDistance) =>
            \A pos \in Samples : \A now \in NowsOf(pos) :
                Processes(pos, now)
                   => /\ IsGoodSample(lastPos, pos, now)
                      /\ StoredDistance(storage').v - PersistedDistance
                            = Metres(lastPos, pos)
       /\ (ev'.op # "sample" /\ storage'.distance # storage.distance)
            => StoredDistance(storage').v <= PersistedDistance]_vars

(* C19, amended: whenever processing a sample leaves a persisted distance  *)
(* above the one it loaded (the stored distance, or 0 when the stored date *)
(* is not the current date), it is above it by d, and the sample had       *)
(* accuracy <= 25, a lastAccepted existed, dt was > 0, d is the distance   *)
(* from lastAccepted to the sample and 0.5 <= d <= 8 * dt; no other event  *)
(* increases the persisted distance.                                       *)
LoadedDistance == IF StoredToday THEN PersistedDistance ELSE 0

C19_GuardedIncrements ==
    [][/\ (ev'.op = "sample" /\ storage'.distance # storage.distance
             /\ StoredDistance(storage').v > LoadedDistance) =>
            \A pos \in Samples : \A now \in NowsOf(pos) :
                Processes(pos, now)
                   => /\ IsGoodSample(lastPos, pos, now)
                      /\ StoredDistance(storage').v - LoadedDistance
                            = Metres(lastPos, pos)
       /\ (ev'.op # "sample" /\ storage'.distance # storage.distance)
            => StoredDistance(storage').v <= PersistedDistance]_vars

\* 0.8 m covered in 100 ms, exactly 8 m/s, was added to 0.5 m
C19_Witness ==
    /\ ev.op = "sample" /\ ev.branch = "accumulate"
    /\ lastPos.timestamp = 1100
    /\ StoredDistance(storage).v = 130

====
